---------------------------- MODULE Spec2Model ----------------------------
(***************************************************************************)
(* BloomWatch explanation pipeline: the orchestrator                       *)
(* (server/agents/orchestrator.py), the signal extractor                   *)
(* (server/agents/web_search_agent.py) and the context builder             *)
(* (server/agents/explanation_agent.py).                                   *)
(*                                                                         *)
(* Conventions.                                                            *)
(*  - A Python dict is a TLA+ record with exactly the keys the code puts   *)
(*    in it; dict.get(k, d) is Get(d, k, default).                         *)
(*  - The text of a search result (title + snippet, lower-cased) is the    *)
(*    set of keywords of the extractor that occur in it as substrings:     *)
(*    the extractor reads the text through `kw in combined_text` only.     *)
(*  - The vegetation score is in hundredths (0.7 is 70).                   *)
(*  - Time is a discrete clock `now`; one tick is one unit of the          *)
(*    orchestrator's timeout.                                              *)
(***************************************************************************)
EXTENDS Integers, Sequences, FiniteSets, TLC

VARIABLES
    inst,        \* _orchestrator_instance: the configured orchestrator, or none
    req,         \* arguments of the orchestrate call in progress
    pc,          \* position of the orchestrate coroutine
    now,         \* wall clock
    start,       \* start_time of the call
    serp,        \* the SerpAPI provider call of unified_search
    news,        \* the NewsAPI provider call of unified_search
    su,          \* search unit (_run_web_search task)
    cu,          \* context unit (_prepare_context task)
    resp,        \* what orchestrate returned
    timedOut,    \* history: wait_for raised TimeoutError
    synthCalled, \* history: crew.kickoff() was called
    log,         \* history: failures of sub-units seen during the call
    missed,      \* history: a unit was still running after the deadline
    exIn,        \* function harness: the argument given to the function applied
    exOut        \* function harness: what the function returned

vars == <<inst, req, pc, now, start, serp, news, su, cu, resp,
          timedOut, synthCalled, log, missed, exIn, exOut>>

orchVars == <<inst, req, pc, now, start, serp, news, su, cu, resp,
              timedOut, synthCalled, log, missed>>
exVars == <<exIn, exOut>>

---------------------------------------------------------------------------
(* Bounds of the model *)

MaxTimeout == 2          \* timeouts 1..MaxTimeout are configured
MaxTime == 4             \* the clock stops at MaxTime
MaxProviderResults == 1  \* a provider returns at most this many results
MaxExtractLen == 2       \* the extractor harness feeds at most this many results
MaxRegionResults == 3    \* the region ranker is given at most this many results
MaxGeocodeLen == 3       \* geocode_regions is given at most this many candidates
Overhead == 1            \* the "small constant overhead" allowed on top of timeout

---------------------------------------------------------------------------
(* Generic helpers *)

Get(d, k, default) == IF k \in DOMAIN d THEN d[k] ELSE default

Min(a, b) == IF a <= b THEN a ELSE b

Take(s, n) == SubSeq(s, 1, Min(Len(s), n))

SeqsUpTo(S, n) == UNION { [1..k -> S] : k \in 0..n }

\* str.lower() on the flower names the model uses
Lower(s) ==
    CASE s = "Tulip" -> "tulip"
      [] s = "Hibiscus" -> "hibiscus"
      [] OTHER -> s

---------------------------------------------------------------------------
(* Knowledge base and context builder: server/agents/explanation_agent.py *)

get_abundance_level(ndvi_score) ==
    IF ndvi_score >= 70 THEN "high"
    ELSE IF ndvi_score >= 40 THEN "medium"
    ELSE "low"

get_current_season(month) ==
    IF month \in {3, 4, 5} THEN "Spring"
    ELSE IF month \in {6, 7, 8} THEN "Summer"
    ELSE IF month \in {9, 10, 11} THEN "Autumn"
    ELSE "Winter"

\* f"{get_current_season()} {datetime.now().year}": the year is fixed
SeasonOfYear(month) == get_current_season(month) \o " 2025"

\* the entries of FLOWER_DATABASE the model's flowers can hit
FLOWER_DATABASE ==
    [ rose |-> [scientific |-> "Rosa", bloom_period |-> "May to September",
                climate |-> "temperate"],
      tulip |-> [scientific |-> "Tulipa", bloom_period |-> "March to May",
                 climate |-> "cold temperate (requires winter chill)"],
      hibiscus |-> [scientific |-> "Hibiscus rosa-sinensis",
                    bloom_period |-> "Year-round in tropics",
                    climate |-> "tropical"] ]
    @@ ("cherry blossom" :>
            [scientific |-> "Prunus serrulata", bloom_period |-> "March to April",
             climate |-> "temperate"])

UnknownFlowerInfo ==
    [scientific |-> "Unknown species", bloom_period |-> "Varies by region",
     climate |-> "unknown"]

\* FLOWER_DATABASE.get(flower_lower, {...defaults...})
FlowerInfo(flower) == Get(FLOWER_DATABASE, Lower(flower), UnknownFlowerInfo)

tropical_keywords ==
    {"kerala", "tropical", "amazon", "equator", "singapore", "malaysia", "indonesia"}
cold_keywords ==
    {"kashmir", "himalaya", "netherlands", "canada", "alaska", "siberia", "scandinavia"}

\* the keywords above that occur in region.lower()
RegionKeywords(region) ==
    CASE region = "Kerala" -> {"kerala"}
      [] region = "Kerala, India" -> {"kerala"}
      [] region = "Netherlands" -> {"netherlands"}
      [] region = "Kashmir Valley" -> {"kashmir"}
      [] region = "Tropical Himalaya" -> {"tropical", "himalaya"}
      [] OTHER -> {}

\* the flower names of the compatibility rules that occur in flower.lower()
FlowerKeywords(flower) ==
    CASE Lower(flower) = "tulip" -> {"tulip"}
      [] Lower(flower) = "tulips" -> {"tulip"}
      [] Lower(flower) = "hibiscus" -> {"hibiscus"}
      [] Lower(flower) = "cherry blossom" -> {"cherry blossom"}
      [] OTHER -> {}

NoWarning == "None"

\* mutant: the rule for cherry blossom is missing
check_climate_compatibility_NoCherry(flower, region) ==
    LET is_tropical == RegionKeywords(region) \cap tropical_keywords # {}
        is_cold == RegionKeywords(region) \cap cold_keywords # {}
        climate_req == Get(Get(FLOWER_DATABASE, Lower(flower), << >>),
                           "climate", "unknown")
        hit == IF "tulip" \in FlowerKeywords(flower) /\ is_tropical THEN "tulip"
               ELSE IF "hibiscus" \in FlowerKeywords(flower) /\ is_cold THEN "hibiscus"
               ELSE "none"
    IN  [ compatible |-> hit = "none",
          warning |-> CASE hit = "tulip" ->
                             "Tulips require cold winter temperatures and do not naturally grow in tropical climates like this region."
                        [] hit = "hibiscus" ->
                             "Hibiscus is a tropical flower and cannot survive in cold climates."
                        [] OTHER -> NoWarning,
          flower_climate |-> climate_req,
          region_type |-> IF is_tropical THEN "tropical"
                          ELSE IF is_cold THEN "cold/temperate" ELSE "unknown" ]

check_climate_compatibility(flower, region) ==
    LET is_tropical == RegionKeywords(region) \cap tropical_keywords # {}
        is_cold == RegionKeywords(region) \cap cold_keywords # {}
        climate_req == Get(Get(FLOWER_DATABASE, Lower(flower), << >>),
                           "climate", "unknown")
        hit == IF "tulip" \in FlowerKeywords(flower) /\ is_tropical THEN "tulip"
               ELSE IF "hibiscus" \in FlowerKeywords(flower) /\ is_cold THEN "hibiscus"
               ELSE IF "cherry blossom" \in FlowerKeywords(flower) /\ is_tropical
                    THEN "cherry"
               ELSE "none"
    IN  [ compatible |-> hit = "none",
          warning |-> CASE hit = "tulip" ->
                             "Tulips require cold winter temperatures and do not naturally grow in tropical climates like this region."
                        [] hit = "hibiscus" ->
                             "Hibiscus is a tropical flower and cannot survive in cold climates."
                        [] hit = "cherry" ->
                             "Cherry blossoms require temperate climates with distinct seasons and cold winters."
                        [] OTHER -> NoWarning,
          flower_climate |-> climate_req,
          region_type |-> IF is_tropical THEN "tropical"
                          ELSE IF is_cold THEN "cold/temperate" ELSE "unknown" ]

ContextNotes(compatibility, ndvi_score) ==
    IF compatibility.warning # NoWarning
    THEN "Climate Warning: " \o compatibility.warning
    ELSE IF ndvi_score >= 80 THEN "Peak blooming observed, excellent vegetation health"
    ELSE IF ndvi_score >= 60 THEN "Active bloom period, favorable conditions"
    ELSE IF ndvi_score >= 30 THEN "Moderate bloom activity, typical for season"
    ELSE "Low vegetation activity, may be off-season or stress conditions"

\* prepare_explanation_context; climate_data, date and web_search_summary are
\* not given.  coordinates is a tuple (<< >> when not given): a non-empty
\* tuple is indexed at [0] and [1], so a 1-tuple raises IndexError.
\* The result is [ok |-> TRUE, value |-> the context dict] or
\* [ok |-> FALSE, exc |-> the exception].
prepare_explanation_context(region, flower, ndvi_score, coordinates, month) ==
    LET flower_info == FlowerInfo(flower)
        compatibility == check_climate_compatibility(flower, region)
        base == [ region |-> region,
                  flower |-> [common_name |-> flower,
                              scientific_name |-> flower_info.scientific],
                  ndvi_score |-> ndvi_score,
                  abundance_level |-> get_abundance_level(ndvi_score),
                  season |-> SeasonOfYear(month),
                  known_bloom_period |-> flower_info.bloom_period,
                  notes |-> ContextNotes(compatibility, ndvi_score),
                  climate_compatible |-> compatibility.warning = NoWarning,
                  compatibility |-> compatibility ]
    IN  IF coordinates # << >> /\ Len(coordinates) < 2
        THEN [ok |-> FALSE, exc |-> "tuple index out of range"]
        ELSE [ok |-> TRUE,
              value |-> IF coordinates # << >>
                        THEN base @@ ("coordinates" :>
                                 [longitude |-> coordinates[1],
                                  latitude |-> coordinates[2]])
                        ELSE base]

\* generate_fallback_explanation: the deterministic template, as the record of
\* the values it interpolates
generate_fallback_explanation(region, flower, ndvi_score, context) ==
    [ kind |-> "fallback",
      ndvi_score |-> ndvi_score,
      flower |-> flower,
      abundance |-> context.abundance_level,
      region |-> region,
      activity |-> IF ndvi_score >= 70 THEN "excellent"
                   ELSE IF ndvi_score >= 40 THEN "moderate" ELSE "limited",
      conditions |-> IF ndvi_score >= 70 THEN "peak flowering conditions"
                     ELSE IF ndvi_score >= 40 THEN "active growth with emerging blooms"
                     ELSE "early or late season conditions",
      season |-> context.season,
      known_bloom_period |-> context.known_bloom_period,
      notes |-> context.notes ]

---------------------------------------------------------------------------
(* Signal extractor and search unit: server/agents/web_search_agent.py *)

\* A keyword that contains another keyword as a substring brings it along.
Implied(kws) ==
    kws \cup (IF "currently blooming" \in kws THEN {"blooming"} ELSE {})
        \cup (IF "uncommon" \in kws THEN {"common"} ELSE {})
        \cup (IF "monsoon" \in kws THEN {"soon"} ELSE {})

\* A search result whose title and snippet hold exactly the keywords kws
Result(source, kws) == [source |-> source, text |-> Implied(kws)]

active_indicators == <<"blooming", "in bloom", "flowering now", "currently blooming">>
upcoming_indicators == <<"will bloom", "expected", "upcoming", "soon">>
past_indicators == <<"finished", "ended", "past bloom">>
not_suitable_indicators == <<"cannot grow", "not suitable", "doesn't grow", "incompatible">>

months == <<"january", "february", "march", "april", "may", "june",
            "july", "august", "september", "october", "november", "december">>

high_indicators == <<"abundant", "common", "widespread", "numerous">>
low_indicators == <<"rare", "uncommon", "scarce", "limited">>
none_indicators == <<"does not grow", "absent", "not found">>

\* any(word in combined_text for word in words)
AnyIn(words, combined_text) == \E i \in 1..Len(words) : words[i] \in combined_text

\* str.capitalize() on a month name
Capitalize(m) ==
    CASE m = "january" -> "January" [] m = "february" -> "February"
      [] m = "march" -> "March" [] m = "april" -> "April"
      [] m = "may" -> "May" [] m = "june" -> "June"
      [] m = "july" -> "July" [] m = "august" -> "August"
      [] m = "september" -> "September" [] m = "october" -> "October"
      [] m = "november" -> "November" [] m = "december" -> "December"

\* combined_text: the text of results[:10]
CombinedText(results) ==
    UNION { results[i].text : i \in 1..Min(Len(results), 10) }

\* mutant: the upcoming group is tried before the active group
ExtractBloomStatus_UpcomingFirst(combined_text) ==
    IF AnyIn(upcoming_indicators, combined_text) THEN "upcoming"
    ELSE IF AnyIn(active_indicators, combined_text) THEN "active"
    ELSE IF AnyIn(past_indicators, combined_text) THEN "past"
    ELSE IF AnyIn(not_suitable_indicators, combined_text) THEN "not_suitable"
    ELSE "unknown"

ExtractBloomStatus(combined_text) ==
    IF AnyIn(active_indicators, combined_text) THEN "active"
    ELSE IF AnyIn(upcoming_indicators, combined_text) THEN "upcoming"
    ELSE IF AnyIn(past_indicators, combined_text) THEN "past"
    ELSE IF AnyIn(not_suitable_indicators, combined_text) THEN "not_suitable"
    ELSE "unknown"

\* mutant: the season keywords are tried before the month names
ExtractSeason_KeywordsFirst(combined_text) ==
    LET found == { i \in 1..Len(months) : months[i] \in combined_text }
        first == CHOOSE i \in found : \A j \in found : i <= j
        last == CHOOSE i \in found : \A j \in found : j <= i
    IN  IF "spring" \in combined_text THEN "Spring"
        ELSE IF "summer" \in combined_text THEN "Summer"
        ELSE IF "fall" \in combined_text \/ "autumn" \in combined_text THEN "Autumn"
        ELSE IF "winter" \in combined_text THEN "Winter"
        ELSE IF "monsoon" \in combined_text THEN "Monsoon"
        ELSE IF found # {}
        THEN IF Cardinality(found) > 1
             THEN Capitalize(months[first]) \o "-" \o Capitalize(months[last])
             ELSE Capitalize(months[first])
        ELSE "Varies by region"

ExtractSeason(combined_text) ==
    LET found == { i \in 1..Len(months) : months[i] \in combined_text }
        first == CHOOSE i \in found : \A j \in found : i <= j
        last == CHOOSE i \in found : \A j \in found : j <= i
    IN  IF found # {}
        THEN IF Cardinality(found) > 1
             THEN Capitalize(months[first]) \o "-" \o Capitalize(months[last])
             ELSE Capitalize(months[first])
        ELSE IF "spring" \in combined_text THEN "Spring"
        ELSE IF "summer" \in combined_text THEN "Summer"
        ELSE IF "fall" \in combined_text \/ "autumn" \in combined_text THEN "Autumn"
        ELSE IF "winter" \in combined_text THEN "Winter"
        ELSE IF "monsoon" \in combined_text THEN "Monsoon"
        ELSE "Varies by region"

\* mutant: the low group is tried before the high group
ExtractAbundance_LowFirst(combined_text) ==
    IF AnyIn(low_indicators, combined_text) THEN "low"
    ELSE IF AnyIn(high_indicators, combined_text) THEN "high"
    ELSE IF AnyIn(none_indicators, combined_text) THEN "none"
    ELSE "medium"

ExtractAbundance(combined_text) ==
    IF AnyIn(high_indicators, combined_text) THEN "high"
    ELSE IF AnyIn(low_indicators, combined_text) THEN "low"
    ELSE IF AnyIn(none_indicators, combined_text) THEN "none"
    ELSE "medium"

\* what extract_bloom_data_from_search returns for an empty result list
EmptyBloomData ==
    [ text_summary |-> [kind |-> "No recent web research available.", items |-> << >>],
      bloom_status |-> "unknown",
      season |-> "Data not available",
      abundance |-> "unknown",
      sources_count |-> 0 ]

\* extract_bloom_data_from_search, lines 184-250: the keyword classification
ExtractFromText(results) ==
    LET combined_text == CombinedText(results)
    IN  [ text_summary |-> [kind |-> "numbered", items |-> Take(results, 5)],
          bloom_status |-> ExtractBloomStatus(combined_text),
          season |-> ExtractSeason(combined_text),
          abundance |-> ExtractAbundance(combined_text),
          sources_count |-> Len(results),
          combined_analysis |-> combined_text ]

\* mutant: no early return for an empty list; the keyword defaults apply
extract_without_empty_check(results) == ExtractFromText(results)

extract_bloom_data_from_search(results) ==
    IF results = << >> THEN EmptyBloomData ELSE ExtractFromText(results)

\* synthesize_search_results
synthesize_search_results(results) ==
    IF results = << >>
    THEN [kind |-> "No recent web research available.", items |-> << >>]
    ELSE [kind |-> "numbered", items |-> Take(results, 5)]

\* get_mock_search_results: two fixed results about the flower and the
\* region; their text holds the keyword "blooming" ("Blooming Patterns",
\* "blooming patterns") and no other keyword of the extractor for the
\* model's flowers and regions.
get_mock_search_results(region, flower) ==
    LET mock_results == << Result("Mock SerpAPI", {"blooming"}),
                           Result("Mock NewsAPI", {}) >>
    IN  [ raw_results |-> mock_results,
          synthesis |-> [kind |-> "mock synthesis", items |-> << >>],
          result_count |-> Len(mock_results),
          mock |-> TRUE ]

\* search_serpapi / search_newsapi: the parsed results of one provider call.
\* outcome is what the provider's client did: it raised (raises), it returned
\* a response the parsing loop fails on (malformed: not a dict, or results
\* that are not a list of dicts), or it returned raw, the texts of the
\* response's results, in
\* order].  An unconfigured provider is not called and yields []; an
\* exception yields [].
ParseResults(source, raw, max_results) ==
    [ i \in 1..Min(Len(raw), max_results) |-> Result(source, raw[i]) ]

search_serpapi(api_key, max_results, outcome) ==
    IF api_key = "" THEN << >>
    ELSE IF outcome.raises \/ outcome.malformed THEN << >>
    ELSE ParseResults("SerpAPI", outcome.raw, max_results)

search_newsapi(api_key, max_results, outcome) ==
    IF api_key = "" THEN << >>
    ELSE IF outcome.raises \/ outcome.malformed THEN << >>
    ELSE ParseResults("NewsAPI", outcome.raw, max_results)

\* mutant: a provider that contributed nothing makes the gatherer give up
\* the results of its sibling
unified_search_AllOrNothing(serp_results, news_results) ==
    IF serp_results = << >> \/ news_results = << >> THEN << >>
    ELSE serp_results \o news_results

\* a variant that merges the NewsAPI results before the SerpAPI results
unified_search_NewsFirst(serp_results, news_results) ==
    news_results \o serp_results

\* unified_search, after asyncio.gather(..., return_exceptions=True):
\* serp_results + news_results
unified_search(serp_results, news_results) == serp_results \o news_results

\* perform_web_search: search_results is what unified_search returned, llm
\* tells whether an LLM is configured and synth_ok whether the agent's
\* task.execute() succeeded.  (The outer except of the function guards
\* statements that do not raise on these values.)
perform_web_search(search_results, llm, synth_ok) ==
    [ raw_results |-> search_results,
      synthesis |-> IF search_results # << >> /\ llm /\ synth_ok
                    THEN [kind |-> "agent synthesis", items |-> << >>]
                    ELSE synthesize_search_results(search_results),
      result_count |-> Len(search_results) ]

---------------------------------------------------------------------------
(* Region ranker: server/agents/web_search_agent.py, lines 382-529.  The text
   of a search result is read through re.findall over the location patterns
   only: a result carries `places`, the strings the patterns capture in it,
   in the order found. *)

RegionResult(places) == [source |-> "SerpAPI", text |-> {}, places |-> places]

\* found_regions: the captures over the text of all results
RECURSIVE FoundRegions(_)
FoundRegions(search_results) ==
    IF search_results = << >> THEN << >>
    ELSE Head(search_results).places \o FoundRegions(Tail(search_results))

stop_words ==
    {"The", "This", "That", "These", "Those", "Many", "Some", "Most",
     "Each", "Every", "All", "Both", "Few", "More", "Other"}

\* Counter(found_regions)[k]
Mentions(found_regions, k) ==
    Cardinality({ i \in 1..Len(found_regions) : found_regions[i] = k })

\* region_counts after line 491: a plain dict {k: v} over the captures that
\* are not stop words
RegionCounts(found_regions) ==
    [ k \in { found_regions[i] : i \in 1..Len(found_regions) } \ stop_words |->
          Mentions(found_regions, k) ]

\* extract_top_regions_from_search: line 491 rebinds region_counts to the
\* result of a dict comprehension, and line 494 calls most_common on it; a
\* dict has no such method, so the call raises AttributeError for every
\* input and lines 497-529 are never reached.
extract_top_regions_from_search(search_results, flower, country) ==
    LET region_counts == RegionCounts(FoundRegions(search_results))
    IN  [ok |-> FALSE, exc |-> "'dict' object has no attribute 'most_common'"]

\* a variant whose except clause returns a record without top_regions and
\* without the error
search_top_regions_NoErrorRecord(country, flower, search_results) ==
    LET regions == extract_top_regions_from_search(search_results, flower, country)
    IN  IF regions.ok THEN regions.value
        ELSE [ country |-> country, flower |-> flower ]

\* search_top_regions, given what unified_search returned, without an LLM:
\* the exception of the extraction is caught by the outer except clause
search_top_regions(country, flower, search_results) ==
    LET regions == extract_top_regions_from_search(search_results, flower, country)
    IN  IF regions.ok THEN regions.value
        ELSE [ country |-> country, flower |-> flower, top_regions |-> << >>,
               error |-> regions.exc ]

---------------------------------------------------------------------------
(* Geocoding: server/services/geocoding_service.py.  Coordinates are
   <<longitude, latitude>> in tenths of a degree; None is << >>; a candidate
   without a country has country "". *)

\* the entries of REGION_COORDINATES the model's names can hit, in the order
\* of the dict
RegionKeys == <<"kashmir", "kashmir valley", "srinagar", "kerala", "netherlands">>

REGION_COORDINATES ==
    [ k \in { RegionKeys[i] : i \in 1..Len(RegionKeys) } |->
        CASE k = "kashmir" -> <<750, 340>>
          [] k = "kashmir valley" -> <<748, 341>>
          [] k = "srinagar" -> <<748, 341>>
          [] k = "kerala" -> <<765, 105>>
          [] k = "netherlands" -> <<53, 521>> ]

\* normalize_region_name: lower-cased, stripped, only a-z and whitespace kept
normalize_region_name(name) ==
    CASE name = "Kashmir Valley" -> "kashmir valley"
      [] name = "Kashmir Hills" -> "kashmir hills"
      [] name = "Xyz" -> "xyz"
      [] name = "India" -> "india"
      [] name = "Atlantis" -> "atlantis"
      [] name = "Netherlands" -> "netherlands"
      [] OTHER -> name

\* <<a, b>> with a a proper substring of b, over the keys and the normalized
\* names and name-country combinations of the model
ProperSubstrings ==
    { <<"kashmir", "kashmir hills">>,
      <<"kashmir", "kashmir hills atlantis">>,
      <<"kashmir", "kashmir hills india">>,
      <<"kashmir", "kashmir hills netherlands">>,
      <<"kashmir", "kashmir valley">>,
      <<"kashmir", "kashmir valley atlantis">>,
      <<"kashmir", "kashmir valley india">>,
      <<"kashmir", "kashmir valley netherlands">>,
      <<"kashmir valley", "kashmir valley atlantis">>,
      <<"kashmir valley", "kashmir valley india">>,
      <<"kashmir valley", "kashmir valley netherlands">>,
      <<"netherlands", "kashmir hills netherlands">>,
      <<"netherlands", "kashmir valley netherlands">>,
      <<"netherlands", "xyz netherlands">> }

\* a in b
IsIn(a, b) == a = b \/ <<a, b>> \in ProperSubstrings

\* the coordinates of the first key of the dict, in its order, among the
\* keys at the positions hits; None when there is none
FirstKey(hits) ==
    IF hits = {} THEN << >>
    ELSE REGION_COORDINATES[RegionKeys[CHOOSE i \in hits : \A j \in hits : i <= j]]

get_coordinates_from_database(region_name, country) ==
    LET normalized == normalize_region_name(region_name)
        combined == normalized \o " " \o normalize_region_name(country)
        partial == { i \in 1..Len(RegionKeys) :
                        IsIn(normalized, RegionKeys[i]) \/ IsIn(RegionKeys[i], normalized) }
        with_country == { i \in 1..Len(RegionKeys) :
                             IsIn(RegionKeys[i], combined) \/ IsIn(combined, RegionKeys[i]) }
    IN  IF normalized \in DOMAIN REGION_COORDINATES
        THEN REGION_COORDINATES[normalized]
        ELSE IF partial # {} THEN FirstKey(partial)
        ELSE IF country # "" THEN FirstKey(with_country)
        ELSE << >>

\* the entries of country_centers the model's countries can hit
country_centers ==
    [ india |-> <<780, 220>>, netherlands |-> <<53, 521>> ]

estimate_country_center(country) ==
    Get(country_centers, normalize_region_name(country), << >>)

geocode_region(region_name, country) ==
    LET coords == get_coordinates_from_database(region_name, country)
    IN  IF coords # << >> THEN coords
        ELSE IF country # "" THEN estimate_country_center(country)
        ELSE << >>

\* the body of the loop of geocode_regions for one region dict
GeocodeOne(region) ==
    IF region.coordinates = << >>
    THEN LET coords == geocode_region(region.name, region.country)
         IN  IF coords # << >>
             THEN [region EXCEPT !.coordinates = coords, !.needs_geocoding = FALSE]
             ELSE [region EXCEPT !.needs_geocoding = TRUE]
    ELSE region

\* mutant: a region whose lookup fails is left out of the list
geocode_regions_DropsFailed(regions) ==
    SelectSeq([ i \in 1..Len(regions) |-> GeocodeOne(regions[i]) ],
              LAMBDA r : r.coordinates # << >>)

geocode_regions(regions) ==
    [ i \in 1..Len(regions) |-> GeocodeOne(regions[i]) ]

---------------------------------------------------------------------------
(* Top-regions endpoint: server/api/top_regions.py *)

\* get_top_regions, lines 79-94, given what search_top_regions returned:
\* the regions are geocoded when there are any, and the response model is
\* filled from the result with defaults for the keys it lacks (None is
\* "None").  geocoded tells whether geocode_regions was called.
get_top_regions(request, result) ==
    LET regions == Get(result, "top_regions", << >>)
        geocoded == regions # << >>
        result2 == IF geocoded
                   THEN [result EXCEPT !.top_regions = geocode_regions(regions)]
                   ELSE result
    IN  [ geocoded |-> geocoded,
          response |->
              [ country |-> Get(result2, "country", request.country),
                flower |-> Get(result2, "flower", request.flower),
                top_regions |-> Get(result2, "top_regions", << >>),
                total_sources |-> Get(result2, "total_sources", 0),
                extraction_method |-> Get(result2, "extraction_method",
                                          "text_analysis"),
                ai_summary |-> Get(result2, "ai_summary", "None"),
                error |-> Get(result2, "error", "None") ] ]

---------------------------------------------------------------------------
(* Orchestrator: server/agents/orchestrator.py *)

\* a variant of the table that passes "unknown" on
abundance_map_KeepsUnknown ==
    [ active |-> "high", upcoming |-> "medium", past |-> "low",
      not_suitable |-> "none", unknown |-> "unknown" ]

abundance_map ==
    [ active |-> "high", upcoming |-> "medium", past |-> "low",
      not_suitable |-> "none", unknown |-> "medium" ]

\* _build_response (context is a context dict, search_result a search dict)
_build_response(self, region, flower, explanation, context, search_result, elapsed, time) ==
    LET raw_results == Get(search_result, "raw_results", << >>)
        bloom_data == extract_bloom_data_from_search(raw_results)
        abundance0 == Get(bloom_data, "abundance", "medium")
        abundance_level ==
            IF abundance0 = "unknown"
            THEN Get(abundance_map, Get(bloom_data, "bloom_status", "unknown"), "medium")
            ELSE abundance0
    IN  [ region |-> region,
          flower |-> [common_name |-> flower,
                      scientific_name |-> context.flower.scientific_name],
          ndvi_score |-> context.ndvi_score,
          abundance_level |-> abundance_level,
          season |-> Get(bloom_data, "season", context.season),
          climate |-> Get(context, "climate", "Climate data not available"),
          known_bloom_period |-> Get(bloom_data, "season", context.known_bloom_period),
          notes |-> Get(context, "notes", ""),
          explanation |-> explanation,
          factors |-> << "Temperature and seasonal variations",
                         "Precipitation and water availability",
                         "Day length (photoperiod)",
                         "Soil composition and nutrients",
                         "Pollinator populations",
                         "Regional climate patterns" >>,
          web_research |->
              [ summary |-> Get(search_result, "synthesis",
                                [kind |-> "", items |-> << >>]),
                source_count |-> Get(search_result, "result_count", 0),
                sources |-> Take(Get(search_result, "raw_results", << >>), 3) ],
          metadata |->
              [ timestamp |-> time,
                processing_time_ms |-> elapsed,
                llm_used |-> self.llm,
                search_available |-> Get(search_result, "result_count", 0) > 0 ],
          timestamp |-> time,
          processing_time_ms |-> elapsed ]

\* the "Based on satellite vegetation data ..." text of _build_fallback_response
FallbackResponseText(region, flower, ndvi_score, abundance, bloom_period) ==
    [ kind |-> "fallback response",
      ndvi_score |-> ndvi_score,
      flower |-> flower,
      abundance |-> abundance,
      region |-> region,
      activity |-> IF ndvi_score >= 70 THEN "optimal"
                   ELSE IF ndvi_score >= 40 THEN "moderate" ELSE "limited",
      known_bloom_period |-> bloom_period ]

\* _build_fallback_response, the dict it returns
FallbackResponseRecord(region, flower, ndvi_score, error, elapsed, time, month) ==
    LET flower_info == FlowerInfo(flower)
        abundance == get_abundance_level(ndvi_score)
    IN  [ region |-> region,
          flower |-> [common_name |-> flower,
                      scientific_name |-> flower_info.scientific],
          ndvi_score |-> ndvi_score,
          abundance_level |-> abundance,
          season |-> SeasonOfYear(month),
          climate |-> "Climate data not available",
          known_bloom_period |-> flower_info.bloom_period,
          notes |-> IF ndvi_score >= 70 THEN "Peak blooming observed"
                    ELSE IF ndvi_score >= 40 THEN "Active bloom period"
                    ELSE "Limited vegetation activity",
          explanation |-> FallbackResponseText(region, flower, ndvi_score,
                                               abundance, flower_info.bloom_period),
          factors |-> << "Temperature and seasonal variations",
                         "Precipitation and water availability",
                         "Day length (photoperiod)" >>,
          web_research |->
              [ summary |-> [kind |-> "Search unavailable", items |-> << >>],
                source_count |-> 0,
                sources |-> << >> ],
          metadata |->
              [ timestamp |-> time,
                processing_time_ms |-> elapsed,
                llm_used |-> FALSE,
                search_available |-> FALSE,
                error |-> error,
                fallback |-> TRUE ],
          timestamp |-> time,
          processing_time_ms |-> elapsed ]

\* mutant: the knowledge base is subscripted (FLOWER_DATABASE[flower_lower])
\* instead of read with a default, so an unknown flower raises KeyError
build_fallback_response_KeyError(region, flower, ndvi_score, error, elapsed, time, month) ==
    IF Lower(flower) \in DOMAIN FLOWER_DATABASE
    THEN [ ok |-> TRUE,
           value |-> FallbackResponseRecord(region, flower, ndvi_score, error,
                                            elapsed, time, month) ]
    ELSE [ ok |-> FALSE, exc |-> "KeyError" ]

\* _build_fallback_response as orchestrate's except clauses see it:
\* [ok |-> TRUE, value |-> the response]; the function has no statement that
\* raises on a str flower and a float score
_build_fallback_response(region, flower, ndvi_score, error, elapsed, time, month) ==
    [ ok |-> TRUE,
      value |-> FallbackResponseRecord(region, flower, ndvi_score, error,
                                       elapsed, time, month) ]

\* str.strip() on the texts the synthesis collaborator returns in the model
Strip(text) == IF text = "   " THEN "" ELSE text

\* _run_web_search: [ok |-> TRUE, value |-> the search dict].  Its except
\* clause turns any exception of the search into the "Web search unavailable"
\* dict, so the task never ends with an exception.
_run_web_search(self, region, flower, use_mock, search_results, synth_ok) ==
    [ ok |-> TRUE,
      value |-> IF use_mock \/ (self.serpapi_key = "" /\ self.newsapi_key = "")
                THEN get_mock_search_results(region, flower)
                ELSE perform_web_search(search_results, self.llm, synth_ok) ]

\* orchestrate, lines 101-108: an exception object in place of the search
\* dict is replaced by a placeholder dict
SearchResultOrPlaceholder(search_result) ==
    IF search_result.ok
    THEN search_result.value
    ELSE [ synthesis |-> [kind |-> "Web search temporarily unavailable",
                          items |-> << >>],
           raw_results |-> << >>,
           error |-> search_result.exc ]

\* _generate_explanation.  context is the gathered value of the context task:
\* with return_exceptions=True an exception of the task arrives here as the
\* value, and subscripting it raises TypeError, also inside the except clause
\* of the LLM branch.  llm_outcome is what crew.kickoff() did:
\* [raises |-> BOOLEAN, raw |-> text].
\* mutant: an exception of the LLM is not caught
generate_explanation_NoBackstop(self, context, llm_outcome) ==
    IF ~context.ok
    THEN [ok |-> FALSE, exc |-> "exception object is not subscriptable"]
    ELSE LET c == context.value
             fallback == generate_fallback_explanation(
                             c.region, c.flower.common_name, c.ndvi_score, c)
         IN  IF ~self.llm THEN [ok |-> TRUE, value |-> fallback]
             ELSE IF llm_outcome.raises THEN [ok |-> FALSE, exc |-> "llm failed"]
             ELSE [ok |-> TRUE,
                   value |-> [kind |-> "agent", text |-> Strip(llm_outcome.raw)]]

_generate_explanation(self, context, llm_outcome) ==
    IF ~context.ok
    THEN [ok |-> FALSE, exc |-> "exception object is not subscriptable"]
    ELSE LET c == context.value
             fallback == generate_fallback_explanation(
                             c.region, c.flower.common_name, c.ndvi_score, c)
         IN  IF ~self.llm THEN [ok |-> TRUE, value |-> fallback]
             ELSE IF llm_outcome.raises THEN [ok |-> TRUE, value |-> fallback]
             ELSE [ok |-> TRUE,
                   value |-> [kind |-> "agent", text |-> Strip(llm_outcome.raw)]]

\* orchestrate, the except clauses: the fallback response is returned; an
\* exception of _build_fallback_response itself would leave orchestrate
OrchestrateExcept(r, error, elapsed, time) ==
    LET fb == _build_fallback_response(r.region, r.flower, r.ndvi_score, error,
                                       elapsed, time, r.month)
    IN  IF fb.ok THEN [outcome |-> "returned", response |-> fb.value]
        ELSE [outcome |-> "raised", exc |-> fb.exc]

\* orchestrate, except asyncio.TimeoutError
OnTimeoutError(r, elapsed, time) == OrchestrateExcept(r, "Timeout", elapsed, time)

\* orchestrate, lines 101-135, once both tasks are gathered
OrchestrateFinish(self, r, search_result, context, llm_outcome, elapsed, time) ==
    LET sr == SearchResultOrPlaceholder(search_result)
        explanation == _generate_explanation(self, context, llm_outcome)
    IN  IF explanation.ok
        THEN [ outcome |-> "returned",
               response |-> _build_response(self, r.region, r.flower,
                                explanation.value, context.value, sr, elapsed, time) ]
        ELSE OrchestrateExcept(r, explanation.exc, elapsed, time)

\* get_orchestrator / BloomExplanationOrchestrator.__init__: the llm is set
\* when a key is given and ChatOpenAI(...) did not raise (ctor_ok)
NewOrchestrator(openai_api_key, serpapi_key, newsapi_key, timeout, ctor_ok) ==
    [ created |-> TRUE,
      openai_api_key |-> openai_api_key,
      serpapi_key |-> serpapi_key,
      newsapi_key |-> newsapi_key,
      timeout |-> timeout,
      max_search_results |-> MaxProviderResults,
      llm |-> (openai_api_key # "" /\ ctor_ok) ]

---------------------------------------------------------------------------
(* Inputs of the model *)

OpenAIKeys == {"", "sk-valid", "invalid_key"}
ProviderKeys == {"", "key"}
Regions == {"Kerala"}
Flowers == {"Tulip", "daisy"}
Scores == {20, 50, 90}
CoordinateInputs == { << >>, <<77>>, <<77, 34>> }
MonthInputs == {11}

\* texts a provider can return
ProviderTexts == { {"blooming", "rare", "march", "may"}, {} }

ProviderOutcomes ==
    { [raises |-> TRUE, malformed |-> FALSE, raw |-> << >>],
      [raises |-> FALSE, malformed |-> TRUE, raw |-> << >>] } \cup
    { [raises |-> FALSE, malformed |-> FALSE, raw |-> raw] :
          raw \in SeqsUpTo(ProviderTexts, MaxProviderResults + 1) }

\* what crew.kickoff() / task.execute() can do: an invalid key always fails
LLMOutcomes(self) ==
    { [raises |-> TRUE, raw |-> ""] } \cup
    IF self.openai_api_key = "invalid_key" THEN {}
    ELSE { [raises |-> FALSE, raw |-> "text"], [raises |-> FALSE, raw |-> "   "] }

NoLLMOutcome == [raises |-> TRUE, raw |-> ""]

---------------------------------------------------------------------------
(* State machine of one orchestrate call *)

NoInst == [created |-> FALSE]
NoReq == [active |-> FALSE]
NoResp == [outcome |-> "none"]
Idle == [st |-> "idle"]
Running == [st |-> "running"]

Init ==
    /\ inst = NoInst
    /\ req = NoReq
    /\ pc = "idle"
    /\ now = 0
    /\ start = 0
    /\ serp = Idle
    /\ news = Idle
    /\ su = Idle
    /\ cu = Idle
    /\ resp = NoResp
    /\ timedOut = FALSE
    /\ synthCalled = FALSE
    /\ log = {}
    /\ missed = FALSE
    /\ exIn = << >>
    /\ exOut = [done |-> FALSE]

\* get_orchestrator(...): creates the instance on the first call
GetOrchestrator ==
    /\ pc = "idle"
    /\ ~inst.created
    /\ \E k \in OpenAIKeys, sk \in ProviderKeys, nk \in ProviderKeys,
          t \in 1..MaxTimeout, ctor_ok \in BOOLEAN :
          inst' = NewOrchestrator(k, sk, nk, t, ctor_ok)
    /\ UNCHANGED <<req, pc, now, start, serp, news, su, cu, resp,
                   timedOut, synthCalled, log, missed, exIn, exOut>>

UsesMock(self, r) == r.use_mock \/ (self.serpapi_key = "" /\ self.newsapi_key = "")

\* orchestrate, lines 85-99: start_time is taken and both tasks are created
OrchestrateCall ==
    /\ pc = "idle"
    /\ inst.created
    /\ \E region \in Regions, flower \in Flowers, ndvi \in Scores,
          coordinates \in CoordinateInputs, use_mock \in BOOLEAN,
          month \in MonthInputs :
          LET r == [ active |-> TRUE, region |-> region, flower |-> flower,
                     ndvi_score |-> ndvi, coordinates |-> coordinates,
                     use_mock |-> use_mock, month |-> month ]
          IN  /\ req' = r
              /\ serp' = IF UsesMock(inst, r) THEN Idle ELSE Running
              /\ news' = IF UsesMock(inst, r) THEN Idle ELSE Running
    /\ pc' = "gathering"
    /\ start' = now
    /\ su' = Running
    /\ cu' = Running
    /\ UNCHANGED <<inst, now, resp, timedOut, synthCalled, log, missed, exIn, exOut>>

BothDone == su.st = "done" /\ cu.st = "done"

Elapsed == now - start

\* how long a blocking call can take.  search_serpapi, search_newsapi,
\* perform_web_search and _generate_explanation call their clients
\* (get_dict, get_everything, task.execute, crew.kickoff) without await: the
\* call runs to its end inside one step of the event loop, the clock advancing
\* meanwhile, and the timer of wait_for is served only between steps.
Durations == 0..(MaxTime - now)

\* the SerpAPI call of unified_search returns
SerpReturns ==
    /\ pc = "gathering"
    /\ serp.st = "running"
    /\ \E outcome \in ProviderOutcomes,
          d \in (IF inst.serpapi_key = "" THEN {0} ELSE Durations) :
          /\ serp' = [ st |-> "done",
                       results |-> search_serpapi(inst.serpapi_key,
                                       inst.max_search_results, outcome) ]
          /\ log' = IF inst.serpapi_key # "" /\ (outcome.raises \/ outcome.malformed)
                    THEN log \cup {"serpapi failed"} ELSE log
          /\ now' = now + d
          /\ missed' = (missed \/ (now + d) - start > inst.timeout)
    /\ UNCHANGED <<inst, req, pc, start, news, su, cu, resp,
                   timedOut, synthCalled, exIn, exOut>>

\* the NewsAPI call of unified_search returns
NewsReturns ==
    /\ pc = "gathering"
    /\ news.st = "running"
    /\ \E outcome \in ProviderOutcomes,
          d \in (IF inst.newsapi_key = "" THEN {0} ELSE Durations) :
          /\ news' = [ st |-> "done",
                       results |-> search_newsapi(inst.newsapi_key,
                                       inst.max_search_results, outcome) ]
          /\ log' = IF inst.newsapi_key # "" /\ (outcome.raises \/ outcome.malformed)
                    THEN log \cup {"newsapi failed"} ELSE log
          /\ now' = now + d
          /\ missed' = (missed \/ (now + d) - start > inst.timeout)
    /\ UNCHANGED <<inst, req, pc, start, serp, su, cu, resp,
                   timedOut, synthCalled, exIn, exOut>>

\* the search task ends: mock results, or unified_search's merge followed by
\* perform_web_search's synthesis (a blocking LLM call when an LLM is
\* configured and there are results)
SearchReturns ==
    /\ pc = "gathering"
    /\ su.st = "running"
    /\ IF UsesMock(inst, req)
       THEN /\ su' = [ st |-> "done",
                       res |-> _run_web_search(inst, req.region, req.flower,
                                               req.use_mock, << >>, FALSE) ]
            /\ UNCHANGED <<log, now, missed>>
       ELSE /\ serp.st = "done"
            /\ news.st = "done"
            /\ LET merged == unified_search(serp.results, news.results)
                   calls_llm == merged # << >> /\ inst.llm
               IN  \E llm_outcome \in
                           (IF calls_llm THEN LLMOutcomes(inst) ELSE {NoLLMOutcome}),
                      d \in (IF calls_llm THEN Durations ELSE {0}) :
                      /\ su' = [ st |-> "done",
                                 res |-> _run_web_search(inst, req.region, req.flower,
                                            req.use_mock, merged, ~llm_outcome.raises) ]
                      /\ log' = log
                           \cup (IF merged = << >> THEN {"search empty"} ELSE {})
                           \cup (IF calls_llm /\ llm_outcome.raises
                                 THEN {"search synthesis failed"} ELSE {})
                      /\ now' = now + d
                      /\ missed' = (missed \/ (now + d) - start > inst.timeout)
    /\ UNCHANGED <<inst, req, pc, start, serp, news, cu, resp,
                   timedOut, synthCalled, exIn, exOut>>

\* the context task ends, with the context or with the exception it raised
ContextReturns ==
    /\ pc = "gathering"
    /\ cu.st = "running"
    /\ LET c == prepare_explanation_context(req.region, req.flower, req.ndvi_score,
                                            req.coordinates, req.month)
       IN  /\ cu' = [st |-> "done", res |-> c]
           /\ log' = IF c.ok THEN log ELSE log \cup {"context failed"}
    /\ UNCHANGED <<inst, req, pc, now, start, serp, news, su, resp,
                   timedOut, synthCalled, missed, exIn, exOut>>

\* asyncio.wait_for on its timeout: it cancels the future it waits for, the
\* gather cancels each of its tasks that is not done, and a cancelled task
\* cancels what it awaits (the provider tasks of unified_search).  A task
\* that is done keeps its result.
Cancel(unit) == IF unit.st = "running" THEN [st |-> "cancelled"] ELSE unit

\* the timer of wait_for is served after the deadline, before the gathered
\* results reach orchestrate: the pending tasks are cancelled and
\* asyncio.TimeoutError is raised, orchestrate lines 126-130
Timeout ==
    /\ pc = "gathering"
    /\ Elapsed >= inst.timeout
    /\ resp' = OnTimeoutError(req, Elapsed, now)
    /\ pc' = "done"
    /\ timedOut' = TRUE
    /\ serp' = Cancel(serp)
    /\ news' = Cancel(news)
    /\ su' = Cancel(su)
    /\ cu' = Cancel(cu)
    /\ UNCHANGED <<inst, req, now, start, synthCalled, log, missed, exIn, exOut>>

\* a variant that starts the synthesis as soon as the context is built, the
\* search task still running
GatherComplete_Early ==
    /\ pc = "gathering"
    /\ cu.st = "done"
    /\ IF inst.llm /\ cu.res.ok
       THEN /\ pc' = "synthesizing"
            /\ synthCalled' = TRUE
            /\ resp' = resp
       ELSE /\ su.st = "done"
            /\ pc' = "done"
            /\ synthCalled' = synthCalled
            /\ resp' = OrchestrateFinish(inst, req, su.res, cu.res, NoLLMOutcome,
                                         Elapsed, now)
    /\ UNCHANGED <<inst, req, now, start, serp, news, su, cu,
                   timedOut, log, missed, exIn, exOut>>

\* the gathered results reach orchestrate; without an LLM call to make, the
\* response is built at once
GatherComplete ==
    /\ pc = "gathering"
    /\ BothDone
    /\ IF inst.llm /\ cu.res.ok
       THEN /\ pc' = "synthesizing"
            /\ synthCalled' = TRUE
            /\ resp' = resp
       ELSE /\ pc' = "done"
            /\ synthCalled' = synthCalled
            /\ resp' = OrchestrateFinish(inst, req, su.res, cu.res, NoLLMOutcome,
                                         Elapsed, now)
    /\ UNCHANGED <<inst, req, now, start, serp, news, su, cu,
                   timedOut, log, missed, exIn, exOut>>

\* crew.kickoff() returns or raises after d ticks; the response is built
SynthesisReturns ==
    /\ pc = "synthesizing"
    /\ \E llm_outcome \in LLMOutcomes(inst), d \in Durations :
          /\ resp' = OrchestrateFinish(inst, req, su.res, cu.res, llm_outcome,
                                       (now + d) - start, now + d)
          /\ log' = IF llm_outcome.raises THEN log \cup {"synthesis failed"} ELSE log
          /\ now' = now + d
    /\ pc' = "done"
    /\ UNCHANGED <<inst, req, start, serp, news, su, cu,
                   timedOut, synthCalled, missed, exIn, exOut>>

Next ==
    \/ GetOrchestrator
    \/ OrchestrateCall
    \/ SerpReturns
    \/ NewsReturns
    \/ SearchReturns
    \/ ContextReturns
    \/ Timeout
    \/ GatherComplete
    \/ SynthesisReturns

Spec == Init /\ [][Next]_vars

---------------------------------------------------------------------------
(* Harness of the signal extractor: Extract applied to bounded inputs *)

StatusTexts == { {}, {"currently blooming"}, {"will bloom"}, {"finished"}, {"not suitable"} }
SeasonTexts == { {}, {"march"}, {"may", "summer"}, {"summer"}, {"monsoon"} }
AbundanceTexts == { {}, {"widespread"}, {"uncommon"}, {"absent"} }

ExtractPool ==
    { Result("SerpAPI", a \cup b \cup c) :
          a \in StatusTexts, b \in SeasonTexts, c \in AbundanceTexts }

InitExtract ==
    /\ inst = NoInst
    /\ req = NoReq
    /\ pc = "idle"
    /\ now = 0
    /\ start = 0
    /\ serp = Idle
    /\ news = Idle
    /\ su = Idle
    /\ cu = Idle
    /\ resp = NoResp
    /\ timedOut = FALSE
    /\ synthCalled = FALSE
    /\ log = {}
    /\ missed = FALSE
    /\ exIn \in SeqsUpTo(ExtractPool, MaxExtractLen)
    /\ exOut = [done |-> FALSE]

Extract ==
    /\ ~exOut.done
    /\ exOut' = [done |-> TRUE, data |-> extract_bloom_data_from_search(exIn)]
    /\ UNCHANGED <<orchVars, exIn>>

NextExtract == Extract

SpecExtract == InitExtract /\ [][NextExtract]_vars

---------------------------------------------------------------------------
(* unified_search on its own: the two provider calls of its gather, in either
   order, and the merge.  exIn is the keys and max_results it is called with,
   exOut the state of the two calls, which of them returned first and, once
   done, the list returned. *)

\* no orchestrate call is in progress
OrchIdle ==
    /\ inst = NoInst
    /\ req = NoReq
    /\ pc = "idle"
    /\ now = 0
    /\ start = 0
    /\ serp = Idle
    /\ news = Idle
    /\ su = Idle
    /\ cu = Idle
    /\ resp = NoResp
    /\ timedOut = FALSE
    /\ synthCalled = FALSE
    /\ log = {}
    /\ missed = FALSE

InitGather ==
    /\ OrchIdle
    /\ exIn \in [ serpapi_key : ProviderKeys, newsapi_key : ProviderKeys,
                   max_results : 1..(MaxProviderResults + 1) ]
    /\ exOut = [done |-> FALSE, serp |-> Running, news |-> Running,
                first |-> "none", results |-> << >>]

\* search_serpapi runs to its return
GatherSerp ==
    /\ ~exOut.done
    /\ exOut.serp.st = "running"
    /\ \E outcome \in ProviderOutcomes :
          exOut' = [exOut EXCEPT !.serp =
                       [ st |-> "done", outcome |-> outcome,
                         results |-> search_serpapi(exIn.serpapi_key,
                                         exIn.max_results, outcome) ],
                       !.first = IF @ = "none" THEN "serp" ELSE @]
    /\ UNCHANGED <<orchVars, exIn>>

\* search_newsapi runs to its return
GatherNews ==
    /\ ~exOut.done
    /\ exOut.news.st = "running"
    /\ \E outcome \in ProviderOutcomes :
          exOut' = [exOut EXCEPT !.news =
                       [ st |-> "done", outcome |-> outcome,
                         results |-> search_newsapi(exIn.newsapi_key,
                                         exIn.max_results, outcome) ],
                       !.first = IF @ = "none" THEN "news" ELSE @]
    /\ UNCHANGED <<orchVars, exIn>>

\* the gather is complete: lines 157-170
GatherReturn ==
    /\ ~exOut.done
    /\ exOut.serp.st = "done"
    /\ exOut.news.st = "done"
    /\ exOut' = [exOut EXCEPT !.done = TRUE,
                              !.results = unified_search(exOut.serp.results,
                                                         exOut.news.results)]
    /\ UNCHANGED <<orchVars, exIn>>

NextGather == GatherSerp \/ GatherNews \/ GatherReturn

SpecGather == InitGather /\ [][NextGather]_vars

---------------------------------------------------------------------------
(* check_climate_compatibility and the context builder on their own.  exIn is
   the flower, the region and the score; exOut what the two functions
   returned. *)

ClimateFlowers ==
    {"tulip", "Tulip", "tulips", "hibiscus", "cherry blossom", "rose", "daisy"}
ClimateRegions ==
    {"Kerala", "Kerala, India", "Netherlands", "Kashmir Valley",
     "Tropical Himalaya", "Thailand"}

InitClimate ==
    /\ OrchIdle
    /\ exIn \in [flower : ClimateFlowers, region : ClimateRegions,
                  ndvi_score : Scores]
    /\ exOut = [done |-> FALSE]

CheckClimate ==
    /\ ~exOut.done
    /\ exOut' = [ done |-> TRUE,
                  compatibility |->
                      check_climate_compatibility(exIn.flower, exIn.region),
                  context |->
                      prepare_explanation_context(exIn.region, exIn.flower,
                          exIn.ndvi_score, << >>, 11) ]
    /\ UNCHANGED <<orchVars, exIn>>

NextClimate == CheckClimate

SpecClimate == InitClimate /\ [][NextClimate]_vars

---------------------------------------------------------------------------
(* The region ranker and the endpoint that calls it.  exIn is the country,
   the flower and the results unified_search returned; exOut what
   search_top_regions returned and how extract_top_regions_from_search ended
   and, once the endpoint has answered, its response. *)

RegionTexts ==
    { << >>, <<"The">>, <<"Srinagar">>, <<"Kashmir Valley">>,
      <<"Kashmir Valley", "Kashmir Valley">>,
      <<"Kashmir Valley", "Kashmir Valley", "Srinagar">> }

InitRegions ==
    /\ OrchIdle
    /\ exIn \in [ country : {"India"}, flower : {"tulip"},
                   results : SeqsUpTo({ RegionResult(t) : t \in RegionTexts },
                                      MaxRegionResults) ]
    /\ exOut = [done |-> FALSE]

RankRegions ==
    /\ ~exOut.done
    /\ exOut' = [ done |-> TRUE,
                  extraction |-> extract_top_regions_from_search(
                                     exIn.results, exIn.flower, exIn.country),
                  out |-> search_top_regions(exIn.country, exIn.flower,
                                             exIn.results) ]
    /\ UNCHANGED <<orchVars, exIn>>

\* get_top_regions after its call of search_top_regions has returned
TopRegionsAnswer ==
    /\ exOut.done
    /\ "response" \notin DOMAIN exOut
    /\ LET a == get_top_regions([country |-> exIn.country, flower |-> exIn.flower],
                                exOut.out)
       IN  exOut' = [ done |-> TRUE, extraction |-> exOut.extraction,
                      out |-> exOut.out, geocoded |-> a.geocoded,
                      response |-> a.response ]
    /\ UNCHANGED <<orchVars, exIn>>

NextRegions == RankRegions \/ TopRegionsAnswer

SpecRegions == InitRegions /\ [][NextRegions]_vars

---------------------------------------------------------------------------
(* geocode_regions on its own.  exIn is the candidate list, exOut the list
   returned. *)

Candidate(name, country, coordinates) ==
    [ name |-> name, country |-> country, coordinates |-> coordinates,
      needs_geocoding |-> TRUE ]

GeocodeCandidates ==
    { Candidate("Kashmir Valley", "India", << >>),
      Candidate("Kashmir Hills", "India", << >>),
      Candidate("Xyz", "India", << >>),
      Candidate("Xyz", "Netherlands", << >>),
      Candidate("Xyz", "Atlantis", << >>),
      Candidate("Xyz", "", << >>),
      Candidate("Xyz", "Atlantis", <<10, 20>>) }

InitGeocode ==
    /\ OrchIdle
    /\ exIn \in SeqsUpTo(GeocodeCandidates, MaxGeocodeLen)
    /\ exOut = [done |-> FALSE]

Geocode ==
    /\ ~exOut.done
    /\ exOut' = [done |-> TRUE, regions |-> geocode_regions(exIn)]
    /\ UNCHANGED <<orchVars, exIn>>

NextGeocode == Geocode

SpecGeocode == InitGeocode /\ [][NextGeocode]_vars

---------------------------------------------------------------------------
(* Properties of orchestrate, checked under Spec *)

Done == pc = "done"
Returned == Done /\ resp.outcome = "returned"
Response == resp.response
Metadata == resp.response.metadata

\* the gathered values, defined once both tasks are done
SearchDict == SearchResultOrPlaceholder(su.res)
SearchCount == Get(SearchDict, "result_count", 0)
NormalPath == Done /\ ~timedOut /\ BothDone /\ cu.res.ok

\* a step of the call itself (not of the clock)
CallStep ==
    \/ SerpReturns \/ NewsReturns \/ SearchReturns \/ ContextReturns
    \/ Timeout \/ GatherComplete \/ SynthesisReturns

\* the keys of a response dict
TopLevelFields ==
    { "region", "flower", "ndvi_score", "abundance_level", "season", "climate",
      "known_bloom_period", "notes", "explanation", "factors", "web_research",
      "metadata", "timestamp", "processing_time_ms" }

NonEmptyText(explanation) == explanation.kind # "agent" \/ explanation.text # ""

Degraded(metadata) == Get(metadata, "fallback", FALSE)

\* C1: orchestrate never lets an exception reach its caller: whatever the
\* search unit, the context build, the deadline and the synthesis collaborator
\* did, a call that has ended has returned a response dict, and a call that
\* has not ended can always take a step of its own.
C1_NeverRaises ==
    /\ Done => /\ resp.outcome = "returned"
               /\ DOMAIN resp.response = TopLevelFields
    /\ pc \in {"gathering", "synthesizing"} => ENABLED CallStep

\* C1 witness: the context build raised, an LLM is configured, and the call
\* returned a response all the same
C1_Witness ==
    /\ Returned /\ ~timedOut /\ inst.llm
    /\ cu.st = "done" /\ ~cu.res.ok
    /\ req.flower = "daisy"

\* C2: orchestrate returns no later than timeout plus a small constant
\* overhead after it was called.
C2_ReturnsWithinTimeout == Done => Elapsed <= inst.timeout + Overhead

\* C3: when exactly one of the two gathered units fails, the other unit's
\* result is still used: a failed context build leaves the search summary and
\* a positive source_count in the response, and an empty search leaves the
\* context's values in it.
C3_PartialFailureKeepsOther ==
    (Done /\ ~timedOut /\ BothDone) =>
        /\ (~cu.res.ok /\ SearchCount > 0) =>
               /\ Response.web_research.source_count > 0
               /\ Response.web_research.summary = SearchDict.synthesis
        /\ (cu.res.ok /\ SearchCount = 0) =>
               /\ Response.notes = cu.res.value.notes
               /\ Response.flower.scientific_name =
                      cu.res.value.flower.scientific_name

\* C4: if the deadline passes before both gathered units have completed,
\* orchestrate goes straight to the fallback response: the synthesis
\* collaborator is not called, the response has no sources and source_count
\* 0, and its metadata says fallback with error "Timeout".
C4_DeadlineGoesToFallback ==
    (Done /\ missed) =>
        /\ Returned
        /\ ~synthCalled
        /\ Response.web_research.sources = << >>
        /\ Response.web_research.source_count = 0
        /\ Degraded(Metadata)
        /\ Get(Metadata, "error", "") = "Timeout"

\* C5: the metadata of every response is marked degraded, with the failure in
\* its error field, whenever a sub-unit failed or the deadline was hit.
C5_DegradedMarked ==
    (Done /\ (timedOut \/ log # {})) =>
        /\ Returned
        /\ Degraded(Metadata)
        /\ "error" \in DOMAIN Metadata

\* C6: with both search provider keys unset, the metadata is marked degraded
\* and does not report search as available, and the explanation is the
\* non-empty output of the deterministic fallback generator for the context.
C6_NoProvidersDegraded ==
    (Done /\ inst.serpapi_key = "" /\ inst.newsapi_key = "") =>
        /\ Returned
        /\ Degraded(Metadata)
        /\ ~Metadata.search_available
        /\ NonEmptyText(Response.explanation)
        /\ LET c == prepare_explanation_context(req.region, req.flower,
                        req.ndvi_score, req.coordinates, req.month)
           IN  c.ok => Response.explanation =
                           generate_fallback_explanation(req.region, req.flower,
                               req.ndvi_score, c.value)

\* C7: every response has the same top-level fields, and its
\* abundance_level, season and explanation are non-empty.
C7_SameShapeAndPopulated ==
    Done =>
        /\ resp.outcome = "returned"
        /\ DOMAIN Response = TopLevelFields
        /\ Response.abundance_level # ""
        /\ Response.season # ""
        /\ NonEmptyText(Response.explanation)

\* C8: when the search returned at least one result, abundance_level is the
\* status-to-abundance table applied to the extracted bloom_status.
C8_AbundanceFromStatusTable ==
    (NormalPath /\ SearchCount > 0) =>
        Response.abundance_level =
            abundance_map[extract_bloom_data_from_search(
                              SearchDict.raw_results).bloom_status]

\* C9: season and known_bloom_period are the search-derived season when the
\* search returned results with a non-empty season, and otherwise the
\* context's season and the knowledge base's bloom period.
C9_SeasonPrecedence ==
    NormalPath =>
        LET bloom_data == extract_bloom_data_from_search(SearchDict.raw_results)
        IN  IF SearchCount > 0 /\ bloom_data.season # ""
            THEN /\ Response.season = bloom_data.season
                 /\ Response.known_bloom_period = bloom_data.season
            ELSE /\ Response.season = cu.res.value.season
                 /\ Response.known_bloom_period = cu.res.value.known_bloom_period

---------------------------------------------------------------------------
(* Properties of the signal extractor, checked under SpecExtract *)

ExText == CombinedText(exIn)
Has(words) == words \cap ExText # {}
ExtractedNonEmpty == exOut.done /\ exIn # << >>

\* C11: for a non-empty result sequence bloom_status is the first group that
\* matches in the order active, upcoming, past, not_suitable, and unknown
\* when none matches; an active indicator wins over any other keyword.
C11_StatusPriority ==
    ExtractedNonEmpty =>
        LET active == Has({"blooming", "in bloom", "flowering now",
                           "currently blooming"})
            upcoming == Has({"will bloom", "expected", "upcoming", "soon"})
            past == Has({"finished", "ended", "past bloom"})
            unsuitable == Has({"cannot grow", "not suitable", "doesn't grow",
                               "incompatible"})
            status == exOut.data.bloom_status
        IN  /\ active => status = "active"
            /\ (~active /\ upcoming) => status = "upcoming"
            /\ (~active /\ ~upcoming /\ past) => status = "past"
            /\ (~active /\ ~upcoming /\ ~past /\ unsuitable) =>
                   status = "not_suitable"
            /\ (~active /\ ~upcoming /\ ~past /\ ~unsuitable) =>
                   status = "unknown"

\* C11 witness: the corpus holds "currently blooming" next to an upcoming
\* and a past indicator, and was classified
C11_Witness ==
    /\ ExtractedNonEmpty
    /\ "currently blooming" \in ExText
    /\ "will bloom" \in ExText \/ "finished" \in ExText
    /\ exOut.data.bloom_status = "active"

---------------------------------------------------------------------------
(* Properties of unified_search, checked under SpecGather *)

\* a provider call that contributes nothing: no key, an exception of the
\* client, or a response the parsing fails on
ProviderFailed(api_key, p) ==
    api_key = "" \/ p.outcome.raises \/ p.outcome.malformed

\* the results of a finished provider call are empty when it failed and
\* otherwise the first max_results results of the response, in order
Contributes(api_key, p, source) ==
    IF ProviderFailed(api_key, p)
    THEN p.results = << >>
    ELSE /\ Len(p.results) = Min(Len(p.outcome.raw), exIn.max_results)
         /\ \A i \in 1..Len(p.results) :
                /\ p.results[i].source = source
                /\ p.outcome.raw[i] \subseteq p.results[i].text

\* C14: unified_search never raises: a provider that is unconfigured, fails
\* or answers with a malformed response contributes the empty sequence, the
\* results of the other provider are returned in full, and neither provider
\* call is kept from running or dropped because of the other.
C14_GathererTolerant ==
    /\ exOut.serp.st = "done" => Contributes(exIn.serpapi_key, exOut.serp, "SerpAPI")
    /\ exOut.news.st = "done" => Contributes(exIn.newsapi_key, exOut.news, "NewsAPI")
    /\ exOut.serp.st = "running" => ENABLED GatherSerp
    /\ exOut.news.st = "running" => ENABLED GatherNews
    /\ (~exOut.done /\ exOut.serp.st = "done" /\ exOut.news.st = "done") =>
           ENABLED GatherReturn
    /\ exOut.done =>
           /\ exOut.serp.st = "done" /\ exOut.news.st = "done"
           /\ exOut.results = exOut.serp.results \o exOut.news.results

\* C14 witness: the SerpAPI call raised, the NewsAPI call returned results,
\* and unified_search returned exactly the NewsAPI results
C14_Witness ==
    /\ exOut.done
    /\ exIn.serpapi_key # "" /\ exOut.serp.outcome.raises
    /\ exIn.newsapi_key # "" /\ exOut.news.results # << >>
    /\ exOut.results = exOut.news.results

---------------------------------------------------------------------------
(* Properties of the climate compatibility check, checked under SpecClimate *)

\* C16: tulip in a region whose name contains Kerala is incompatible with a
\* non-empty warning, tulip in Netherlands is compatible; compatible is false
\* exactly for tulip or cherry blossom in a region with a tropical keyword
\* and hibiscus in a region with a cold keyword; the warning is non-empty
\* exactly when compatible is false, and the context carries it in its notes.
C16_ClimateCompatibility ==
    exOut.done =>
        LET c == exOut.compatibility
            tulip == exIn.flower \in {"tulip", "Tulip", "tulips"}
            cherry == exIn.flower = "cherry blossom"
            hibiscus == exIn.flower = "hibiscus"
            kerala == exIn.region \in {"Kerala", "Kerala, India"}
            tropical == kerala \/ exIn.region = "Tropical Himalaya"
            cold == exIn.region \in {"Netherlands", "Kashmir Valley",
                                     "Tropical Himalaya"}
            warned == c.warning # NoWarning /\ c.warning # ""
        IN  /\ (tulip /\ kerala) => (~c.compatible /\ warned)
            /\ (exIn.flower = "tulip" /\ exIn.region = "Netherlands") =>
                   c.compatible
            /\ ~c.compatible <=>
                   (((tulip \/ cherry) /\ tropical) \/ (hibiscus /\ cold))
            /\ warned <=> ~c.compatible
            /\ exOut.context.ok
            /\ exOut.context.value.climate_compatible = c.compatible
            /\ exOut.context.value.compatibility = c

\* C16 witness: tulip was checked against a region whose name contains
\* Kerala and found incompatible
C16_Witness ==
    /\ exOut.done
    /\ exIn.flower = "Tulip" /\ exIn.region = "Kerala, India"
    /\ ~exOut.compatibility.compatible
    /\ exOut.compatibility.region_type = "tropical"

---------------------------------------------------------------------------
(* Properties of the region ranker, checked under SpecRegions *)

\* the place names of the corpus that are not stop words, and their counts
Corpus == FoundRegions(exIn.results)
Survivors == { Corpus[i] : i \in 1..Len(Corpus) } \ stop_words
TopRegions == exOut.out.top_regions

\* C17: for a corpus that mentions at least one place name the ranker
\* returns the candidates, at most 5 of them, in descending order of
\* mentions, none of them a stop word.
C17_RankedTopFive ==
    (exOut.done /\ Survivors # {}) =>
        /\ exOut.extraction.ok
        /\ "error" \notin DOMAIN exOut.out
        /\ Len(TopRegions) = Min(Cardinality(Survivors), 5)
        /\ \A i \in 1..Len(TopRegions) :
               /\ TopRegions[i].name \in Survivors
               /\ TopRegions[i].mentions = Mentions(Corpus, TopRegions[i].name)
               /\ \A j \in (i + 1)..Len(TopRegions) :
                      TopRegions[i].mentions >= TopRegions[j].mentions

\* C18: every candidate has confidence min(mentions / total_sources * 100,
\* 100); with Kashmir Valley mentioned five times and Srinagar twice the top
\* candidate is Kashmir Valley with that confidence.
C18_Confidence ==
    (exOut.done /\ Survivors # {}) =>
        /\ TopRegions # << >>
        /\ \A i \in 1..Len(TopRegions) :
               /\ TopRegions[i].confidence * Len(exIn.results) =
                      Min(TopRegions[i].mentions * 100, 100 * Len(exIn.results))
               /\ TopRegions[i].confidence \in 0..100
        /\ (Mentions(Corpus, "Kashmir Valley") = 5
               /\ Mentions(Corpus, "Srinagar") = 2) =>
                  /\ TopRegions[1].name = "Kashmir Valley"
                  /\ TopRegions[1].mentions = 5

\* C19: when no candidate survives extraction and stop-word filtering, the
\* ranker returns exactly one candidate named after the country, with
\* confidence 50, 0 mentions, needs_geocoding true and a note.
C19_CountryFallback ==
    (exOut.done /\ Survivors = {}) =>
        /\ Len(TopRegions) = 1
        /\ TopRegions[1].name = exIn.country
        /\ TopRegions[1].confidence = 50
        /\ TopRegions[1].mentions = 0
        /\ TopRegions[1].needs_geocoding
        /\ "note" \in DOMAIN TopRegions[1]

---------------------------------------------------------------------------
(* Properties of geocode_regions, checked under SpecGeocode *)

\* the lookup of a candidate finds coordinates: its name is in the database
\* (whole or in part) or its country is a known one
LookupSucceeds(region) ==
    \/ region.name \in {"Kashmir Valley", "Kashmir Hills"}
    \/ region.country \in {"India", "Netherlands"}

\* C20: geocoding keeps every candidate, in order; a candidate whose lookup
\* fails stays with needs_geocoding true and no coordinates, and every
\* candidate whose lookup succeeds gets coordinates and needs_geocoding
\* false, whatever happens to the others.
C20_GeocodeKeepsAll ==
    exOut.done =>
        /\ Len(exOut.regions) = Len(exIn)
        /\ \A i \in 1..Len(exIn) :
               /\ exOut.regions[i].name = exIn[i].name
               /\ exOut.regions[i].country = exIn[i].country
               /\ exIn[i].coordinates = << >> =>
                      IF LookupSucceeds(exIn[i])
                      THEN /\ Len(exOut.regions[i].coordinates) = 2
                           /\ ~exOut.regions[i].needs_geocoding
                      ELSE /\ exOut.regions[i].coordinates = << >>
                           /\ exOut.regions[i].needs_geocoding

\* C20 witness: three candidates, the lookup of the second failed, and the
\* first and the third have their coordinates
C20_Witness ==
    /\ exOut.done /\ Len(exIn) = 3
    /\ \A i \in 1..3 : exIn[i].coordinates = << >>
    /\ exOut.regions[2].coordinates = << >> /\ exOut.regions[2].needs_geocoding
    /\ exOut.regions[1].coordinates # << >> /\ ~exOut.regions[1].needs_geocoding
    /\ exOut.regions[3].coordinates # << >> /\ ~exOut.regions[3].needs_geocoding

---------------------------------------------------------------------------
(* get_orchestrator on its own: a sequence of calls with any arguments.
   inst is the module global _orchestrator_instance, exIn the arguments of
   the latest call, exOut the instance that call returned. *)

InitSingleton ==
    /\ OrchIdle
    /\ exIn = [called |-> FALSE]
    /\ exOut = [done |-> FALSE]

\* get_orchestrator(...), lines 394-405: the instance is created when the
\* global is None, and the global is returned
GetOrchestratorCall ==
    \E k \in OpenAIKeys, sk \in ProviderKeys, nk \in ProviderKeys,
       t \in 1..MaxTimeout, ctor_ok \in BOOLEAN :
       /\ exIn' = [ called |-> TRUE, openai_api_key |-> k, serpapi_key |-> sk,
                    newsapi_key |-> nk, timeout |-> t ]
       /\ inst' = IF ~inst.created THEN NewOrchestrator(k, sk, nk, t, ctor_ok)
                  ELSE inst
       /\ exOut' = [done |-> TRUE, returned |-> inst']
       /\ UNCHANGED <<req, pc, now, start, serp, news, su, cu, resp,
                      timedOut, synthCalled, log, missed>>

NextSingleton == GetOrchestratorCall

SpecSingleton == InitSingleton /\ [][NextSingleton]_vars

\* C21: the orchestrator a get_orchestrator call returns is configured with
\* the arguments of that call (its keys and its timeout), for every call of a
\* sequence of calls with differing arguments.
C21_ConfiguredAsCalled ==
    exOut.done =>
        /\ exOut.returned.openai_api_key = exIn.openai_api_key
        /\ exOut.returned.serpapi_key = exIn.serpapi_key
        /\ exOut.returned.newsapi_key = exIn.newsapi_key
        /\ exOut.returned.timeout = exIn.timeout

---------------------------------------------------------------------------
(* Further properties of orchestrate, checked under Spec *)

\* C22: every response of a mock-search call without an LLM has the top-level
\* fields region, flower, scientific_name, bloom_period, ndvi_score,
\* abundance_level, season and processing_time_ms, and web_research has
\* source_count and summary.
C22_TestedTopLevelFields ==
    (Returned /\ req.use_mock /\ ~inst.llm) =>
        /\ { "region", "flower", "scientific_name", "bloom_period", "ndvi_score",
             "abundance_level", "season", "processing_time_ms" }
               \subseteq DOMAIN Response
        /\ {"source_count", "summary"} \subseteq DOMAIN Response.web_research

\* C23: the explanation synthesis starts only after both gathered units have
\* ended (with their result or its placeholder): while it runs, and whenever
\* it has been called, the search unit and the context build are both done,
\* the deadline branch was not taken, and the synthesis has the whole context.
C23_SynthesisAfterBoth ==
    (pc = "synthesizing" \/ synthCalled) =>
        /\ su.st = "done"
        /\ cu.st = "done"
        /\ cu.res.ok
        /\ ~timedOut

\* C23 witness: the synthesis is running on the results of a real search
\* whose providers have both returned, and on the context
C23_Witness ==
    /\ pc = "synthesizing" /\ synthCalled
    /\ serp.st = "done" /\ news.st = "done"
    /\ su.st = "done" /\ cu.st = "done"
    /\ SearchCount > 0

---------------------------------------------------------------------------
(* The merge of unified_search, checked under SpecGather *)

\* the number of results a finished provider call hands to the merge
Kept(api_key, p) ==
    IF ProviderFailed(api_key, p) THEN 0
    ELSE Min(Len(p.outcome.raw), exIn.max_results)

\* C24: the sequence unified_search returns is all SerpAPI results followed
\* by all NewsAPI results, each in the order of its provider's response, at
\* most max_results per provider, equal results kept, whichever of the two
\* provider calls returned first.
C24_MergeOrder ==
    exOut.done =>
        LET ns == Kept(exIn.serpapi_key, exOut.serp)
            nn == Kept(exIn.newsapi_key, exOut.news)
        IN  /\ ns <= exIn.max_results /\ nn <= exIn.max_results
            /\ Len(exOut.results) = ns + nn
            /\ \A i \in 1..ns :
                   /\ exOut.results[i].source = "SerpAPI"
                   /\ exOut.results[i] = Result("SerpAPI", exOut.serp.outcome.raw[i])
            /\ \A j \in 1..nn :
                   /\ exOut.results[ns + j].source = "NewsAPI"
                   /\ exOut.results[ns + j] = Result("NewsAPI", exOut.news.outcome.raw[j])

\* C24 witness: the NewsAPI call returned first, SerpAPI answered with more
\* results than max_results, and the merged list is the kept SerpAPI result
\* followed by the NewsAPI results, two of them equal
C24_Witness ==
    /\ exOut.done /\ exOut.first = "news"
    /\ exIn.serpapi_key # "" /\ exIn.newsapi_key # ""
    /\ Len(exOut.serp.outcome.raw) > exIn.max_results
    /\ Len(exOut.results) >= 2
    /\ exOut.results[1].source = "SerpAPI"
    /\ exOut.results[Len(exOut.results)].source = "NewsAPI"
    /\ \E i, j \in 1..Len(exOut.results) :
           i # j /\ exOut.results[i].text = exOut.results[j].text

\* C25: when the search unit failed or returned no results, the context was
\* built and the deadline was not hit, abundance_level is the default derived
\* from the request's vegetation score: high from 0.7, medium from 0.4, low
\* below.
C25_ScoreDefaultWithoutSearch ==
    (NormalPath /\ resp.outcome = "returned" /\ SearchCount = 0) =>
        Response.abundance_level =
            (IF req.ndvi_score >= 70 THEN "high"
             ELSE IF req.ndvi_score >= 40 THEN "medium" ELSE "low")

---------------------------------------------------------------------------
(* Two orchestrate calls interleaved on one instance.  inst is the shared
   instance and now the clock of the one event loop both calls run on; exIn
   is the instance as it was constructed, exOut the state of each call: its
   request, its position, its start time, the time its own blocking calls
   took (own), its two units and its response.  A blocking call of one call
   advances the clock for both. *)

Calls == {"a", "b"}

SharedInstances ==
    { NewOrchestrator(k, "key", "", t, TRUE) :
          k \in {"", "sk-valid"}, t \in 1..MaxTimeout }

SharedRequests ==
    { [ active |-> TRUE, region |-> "Kerala", flower |-> "daisy",
        ndvi_score |-> 50, coordinates |-> <<77, 34>>,
        use_mock |-> m, month |-> 11 ] : m \in BOOLEAN }

\* what SerpAPI answers in this harness: an exception or one result
SharedOutcomes ==
    { [raises |-> TRUE, malformed |-> FALSE, raw |-> << >>],
      [raises |-> FALSE, malformed |-> FALSE,
       raw |-> << {"blooming", "rare", "march", "may"} >>] }

NoCall ==
    [ pc |-> "idle", req |-> NoReq, start |-> 0, own |-> 0,
      su |-> Idle, cu |-> Idle, resp |-> NoResp, timedOut |-> FALSE ]

InitShared ==
    /\ inst \in SharedInstances
    /\ req = NoReq
    /\ pc = "idle"
    /\ now = 0
    /\ start = 0
    /\ serp = Idle
    /\ news = Idle
    /\ su = Idle
    /\ cu = Idle
    /\ resp = NoResp
    /\ timedOut = FALSE
    /\ synthCalled = FALSE
    /\ log = {}
    /\ missed = FALSE
    /\ exIn = inst
    /\ exOut = [i \in Calls |-> NoCall]

\* the variables no step of a call writes: the instance among them
sharedFrame ==
    <<inst, req, pc, start, serp, news, su, cu, resp, timedOut, synthCalled,
      log, missed, exIn>>

\* orchestrate, lines 85-99, of call i
SharedCall(i) ==
    /\ exOut[i].pc = "idle"
    /\ \E r \in SharedRequests :
          exOut' = [exOut EXCEPT ![i] =
                       [ pc |-> "gathering", req |-> r, start |-> now, own |-> 0,
                         su |-> Running, cu |-> Running, resp |-> NoResp,
                         timedOut |-> FALSE ]]
    /\ UNCHANGED <<sharedFrame, now>>

\* the search task of call i runs to its end: mock results at once, or the
\* blocking provider call (and the blocking search synthesis) taking d ticks
SharedSearch(i) ==
    LET c == exOut[i]
    IN  /\ c.pc = "gathering"
        /\ c.su.st = "running"
        /\ IF UsesMock(inst, c.req)
           THEN /\ exOut' = [exOut EXCEPT ![i].su =
                       [ st |-> "done",
                         res |-> _run_web_search(inst, c.req.region, c.req.flower,
                                                 c.req.use_mock, << >>, FALSE) ]]
                /\ now' = now
           ELSE \E outcome \in SharedOutcomes, d \in Durations :
                   LET merged == unified_search(
                           search_serpapi(inst.serpapi_key,
                                          inst.max_search_results, outcome),
                           search_newsapi(inst.newsapi_key,
                                          inst.max_search_results, outcome))
                       calls_llm == merged # << >> /\ inst.llm
                   IN  \E llm_outcome \in
                              (IF calls_llm THEN LLMOutcomes(inst) ELSE {NoLLMOutcome}) :
                          /\ exOut' = [exOut EXCEPT
                                 ![i].su =
                                     [ st |-> "done",
                                       res |-> _run_web_search(inst, c.req.region,
                                                   c.req.flower, c.req.use_mock,
                                                   merged, ~llm_outcome.raises) ],
                                 ![i].own = @ + d]
                          /\ now' = now + d
        /\ UNCHANGED sharedFrame

\* the context task of call i ends
SharedContext(i) ==
    LET c == exOut[i]
    IN  /\ c.pc = "gathering"
        /\ c.cu.st = "running"
        /\ exOut' = [exOut EXCEPT ![i].cu =
               [ st |-> "done",
                 res |-> prepare_explanation_context(c.req.region, c.req.flower,
                             c.req.ndvi_score, c.req.coordinates, c.req.month) ]]
        /\ UNCHANGED <<sharedFrame, now>>

\* the timer of call i's wait_for is served after its deadline: its pending
\* tasks are cancelled
SharedTimeout(i) ==
    LET c == exOut[i]
    IN  /\ c.pc = "gathering"
        /\ now - c.start >= inst.timeout
        /\ exOut' = [exOut EXCEPT
               ![i].pc = "done",
               ![i].timedOut = TRUE,
               ![i].su = Cancel(@),
               ![i].cu = Cancel(@),
               ![i].resp = OnTimeoutError(c.req, now - c.start, now)]
        /\ UNCHANGED <<sharedFrame, now>>

\* the gathered results reach call i
SharedGatherComplete(i) ==
    LET c == exOut[i]
    IN  /\ c.pc = "gathering"
        /\ c.su.st = "done"
        /\ c.cu.st = "done"
        /\ exOut' = IF inst.llm /\ c.cu.res.ok
                    THEN [exOut EXCEPT ![i].pc = "synthesizing"]
                    ELSE [exOut EXCEPT
                             ![i].pc = "done",
                             ![i].resp = OrchestrateFinish(inst, c.req, c.su.res,
                                             c.cu.res, NoLLMOutcome,
                                             now - c.start, now)]
        /\ UNCHANGED <<sharedFrame, now>>

\* crew.kickoff() of call i returns or raises after d ticks
SharedSynthesis(i) ==
    LET c == exOut[i]
    IN  /\ c.pc = "synthesizing"
        /\ \E llm_outcome \in LLMOutcomes(inst), d \in Durations :
              /\ exOut' = [exOut EXCEPT
                     ![i].pc = "done",
                     ![i].own = @ + d,
                     ![i].resp = OrchestrateFinish(inst, c.req, c.su.res, c.cu.res,
                                     llm_outcome, (now + d) - c.start, now + d)]
              /\ now' = now + d
        /\ UNCHANGED sharedFrame

NextShared ==
    \E i \in Calls :
        \/ SharedCall(i)
        \/ SharedSearch(i)
        \/ SharedContext(i)
        \/ SharedTimeout(i)
        \/ SharedGatherComplete(i)
        \/ SharedSynthesis(i)

SpecShared == InitShared /\ [][NextShared]_vars

\* C26: no orchestrate call modifies the shared instance, and the response of
\* each of two interleaved calls depends only on its own request and its own
\* sub-units: it took the deadline branch only if its own units used up the
\* timeout, and the processing time it reports is the time of its own calls.
C26_CallsIndependent ==
    /\ inst = exIn
    /\ \A i \in Calls :
           (exOut[i].pc = "done" /\ exOut[i].resp.outcome = "returned") =>
               /\ exOut[i].timedOut => exOut[i].own >= inst.timeout
               /\ exOut[i].resp.response.processing_time_ms = exOut[i].own

---------------------------------------------------------------------------
(* The deadline and the gathered units, checked under Spec *)

\* the two gathered tasks and the two provider tasks of the search
Units == <<su, cu, serp, news>>

\* C27: when the deadline of orchestrate expires, no sub-unit is cancelled:
\* a unit that was still running is left to run and only its result is
\* discarded.
C27_NoCancellationAtDeadline ==
    timedOut => \A k \in 1..Len(Units) : Units[k].st # "cancelled"

---------------------------------------------------------------------------
(* The deterministic fallback explanation on its own, for every score in
   hundredths.  exIn is the region, the flower and the score; exOut the
   context built from them and the explanation generated from the context. *)

MaxScore == 100

InitFallbackText ==
    /\ OrchIdle
    /\ exIn \in [region : {"Kerala"}, flower : {"daisy", "Tulip"},
                  ndvi_score : 0..MaxScore]
    /\ exOut = [done |-> FALSE]

\* _generate_explanation without an LLM: the context of
\* prepare_explanation_context goes to generate_fallback_explanation
FallbackExplain ==
    /\ ~exOut.done
    /\ LET c == prepare_explanation_context(exIn.region, exIn.flower,
                    exIn.ndvi_score, << >>, 11)
       IN  exOut' = [ done |-> TRUE,
                      context |-> c.value,
                      explanation |-> generate_fallback_explanation(
                          c.value.region, c.value.flower.common_name,
                          c.value.ndvi_score, c.value) ]
    /\ UNCHANGED <<orchVars, exIn>>

NextFallbackText == FallbackExplain

SpecFallbackText == InitFallbackText /\ [][NextFallbackText]_vars

\* C28: for every score the fallback explanation picks all of its
\* score-dependent phrases with the thresholds 0.8 peak, 0.6 active,
\* 0.3 moderate, else low: the abundance word and the two condition phrases
\* are the top ones exactly from 0.8 and the bottom ones exactly below 0.3,
\* and the notes (when there is no climate warning) are those of the tier.
C28_FallbackThresholds ==
    exOut.done =>
        LET s == exIn.ndvi_score
            e == exOut.explanation
        IN  /\ (e.abundance = "high") <=> (s >= 80)
            /\ (e.abundance = "low") <=> (s < 30)
            /\ (e.activity = "excellent") <=> (s >= 80)
            /\ (e.activity = "limited") <=> (s < 30)
            /\ (e.conditions = "peak flowering conditions") <=> (s >= 80)
            /\ (e.conditions = "early or late season conditions") <=> (s < 30)
            /\ exOut.context.climate_compatible =>
                   e.notes =
                       (IF s >= 80
                        THEN "Peak blooming observed, excellent vegetation health"
                        ELSE IF s >= 60
                        THEN "Active bloom period, favorable conditions"
                        ELSE IF s >= 30
                        THEN "Moderate bloom activity, typical for season"
                        ELSE "Low vegetation activity, may be off-season or stress conditions")

---------------------------------------------------------------------------
(* The range of abundance_level, checked under Spec *)

\* C29: in every response orchestrate returns, from the normal path or from
\* the fallback path, abundance_level is one of high, medium, low and none,
\* and never "unknown", also when the extractor's abundance is "unknown".
C29_AbundanceLevelRange ==
    Returned => Response.abundance_level \in {"high", "medium", "low", "none"}

\* C29 witness: a search that returned nothing, for which the extractor's
\* abundance is "unknown", and a normal response whose level is a proper one
C29_Witness ==
    /\ NormalPath /\ Returned /\ ~UsesMock(inst, req)
    /\ ~Degraded(Metadata)
    /\ extract_bloom_data_from_search(
           Get(SearchDict, "raw_results", << >>)).abundance = "unknown"
    /\ Response.abundance_level = "medium"

---------------------------------------------------------------------------
(* The degraded answer of the top-regions endpoint, checked under
   SpecRegions *)

\* C30: search_top_regions never raises: when the region extraction fails it
\* returns the requested country and flower, an empty top_regions list and
\* an error string, and the endpoint then skips geocoding and answers with
\* an empty top_regions list and total_sources 0.
C30_TopRegionsDegrades ==
    /\ ~exOut.done => ENABLED RankRegions
    /\ (exOut.done /\ ~exOut.extraction.ok) =>
           /\ Get(exOut.out, "country", "") = exIn.country
           /\ Get(exOut.out, "flower", "") = exIn.flower
           /\ Get(exOut.out, "top_regions", <<"missing">>) = << >>
           /\ Get(exOut.out, "error", "") = exOut.extraction.exc
           /\ Get(exOut.out, "error", "") # ""
           /\ ENABLED TopRegionsAnswer \/ "response" \in DOMAIN exOut
    /\ (exOut.done /\ ~exOut.extraction.ok /\ "response" \in DOMAIN exOut) =>
           /\ ~exOut.geocoded
           /\ exOut.response.country = exIn.country
           /\ exOut.response.flower = exIn.flower
           /\ exOut.response.top_regions = << >>
           /\ exOut.response.total_sources = 0
           /\ exOut.response.error = exOut.extraction.exc

\* C30 witness: the search returned three results that name regions, the
\* extraction raised, and the endpoint answered without regions
C30_Witness ==
    /\ exOut.done /\ "response" \in DOMAIN exOut
    /\ Len(exIn.results) = 3
    /\ FoundRegions(exIn.results) # << >>
    /\ ~exOut.extraction.ok
    /\ exOut.out.error # ""
    /\ ~exOut.geocoded
    /\ exOut.response.top_regions = << >>
    /\ exOut.response.total_sources = 0

====
